---------------------------- MODULE Spec2Model ----------------------------
(***************************************************************************)
(* LSPX-S2 lighting: the vendored songpal Device (its three cached         *)
(* settings, get_device_misc_settings, set_device_misc_settings) and the   *)
(* LspxLight entity (async_update, async_turn_on, async_turn_off) that     *)
(* drives it, together with the speaker at the other end of the HTTP       *)
(* JSON-RPC calls.                                                         *)
(*                                                                         *)
(* Python values are modelled by what the code does with them: a string is *)
(* a sequence of one-character strings, str() and int() are computed       *)
(* digit by digit, None is a value of its own.                             *)
(***************************************************************************)
EXTENDS Integers, Sequences, FiniteSets, TLC

(***************************************************************************)
(* Python values that travel through the settings: str, int and None.      *)
(***************************************************************************)
NoneV == [tag |-> "None", s |-> <<>>, n |-> 0]

Str(chars) == [tag |-> "str", s |-> chars, n |-> 0]

IntV(i) == [tag |-> "int", s |-> <<>>, n |-> i]

ON == Str(<<"o", "n">>)

OFF == Str(<<"o", "f", "f">>)

Digits == <<"0", "1", "2", "3", "4", "5", "6", "7", "8", "9">>

(* str(n) of a Python int. *)
RECURSIVE StrOfNat(_)
StrOfNat(n) ==
    IF n < 10 THEN <<Digits[n + 1]>>
    ELSE StrOfNat(n \div 10) \o <<Digits[(n % 10) + 1]>>

StrOfInt(i) == IF i < 0 THEN <<"-">> \o StrOfNat(0 - i) ELSE StrOfNat(i)

(* str(value): a str is itself, an int its decimal digits, None is "None". *)
PyStr(v) ==
    CASE v.tag = "str" -> v
      [] v.tag = "int" -> Str(StrOfInt(v.n))
      [] OTHER -> Str(<<"N", "o", "n", "e">>)

DigitValue(c) == CHOOSE k \in 0..9 : Digits[k + 1] = c

IsDigit(c) == \E k \in 0..9 : Digits[k + 1] = c

RECURSIVE NatOfDigits(_)
NatOfDigits(chars) ==
    IF chars = <<>> THEN 0
    ELSE NatOfDigits(SubSeq(chars, 1, Len(chars) - 1)) * 10
         + DigitValue(chars[Len(chars)])

AllDigits(chars) == chars # <<>> /\ \A k \in 1..Len(chars) : IsDigit(chars[k])

(* int(value): [ok, n]; ok = FALSE stands for the ValueError / TypeError    *)
(* int() raises.  An int is itself; a str parses when it is an optional    *)
(* sign followed by decimal digits; None never parses.                     *)
PyInt(v) ==
    CASE v.tag = "int" -> [ok |-> TRUE, n |-> v.n]
      [] v.tag = "str" /\ AllDigits(v.s) -> [ok |-> TRUE, n |-> NatOfDigits(v.s)]
      [] v.tag = "str" /\ Len(v.s) > 1 /\ v.s[1] = "-" /\ AllDigits(Tail(v.s)) ->
            [ok |-> TRUE, n |-> 0 - NatOfDigits(Tail(v.s))]
      [] v.tag = "str" /\ Len(v.s) > 1 /\ v.s[1] = "+" /\ AllDigits(Tail(v.s)) ->
            [ok |-> TRUE, n |-> NatOfDigits(Tail(v.s))]
      [] OTHER -> [ok |-> FALSE, n |-> 0]

Max(a, b) == IF a >= b THEN a ELSE b


(***************************************************************************)
(* light.py: the two brightness scales.                                    *)
(***************************************************************************)
DeviceScale == 32

HaScale == 255

(* round(num / den) for den > 0, as Python 3 rounds: to the nearest        *)
(* integer, a tie to the even one.  brightness / 255 * 32 is computed in   *)
(* floats; 32 * b / 255 is never closer than 1/510 to a tie, far more than *)
(* the rounding error of two float operations, so the exact quotient       *)
(* rounds the same way.                                                    *)
PyRound(num, den) ==
    LET q == num \div den
        r == num % den
    IN  IF 2 * r < den THEN q
        ELSE IF 2 * r > den THEN q + 1
        ELSE IF q % 2 = 0 THEN q ELSE q + 1

(* ToNormalized with 256 steps in place of 255 *)
ToNormalizedFlat(d) == (d * (HaScale + 1)) \div DeviceScale

(* async_update: self._brightness = int(cur) * 255 // 32 *)
ToNormalized(d) == (d * HaScale) \div DeviceScale

(* async_turn_on: device_brightness = max(0, round(brightness / 255 * 32)) *)
ToDevice(b) == Max(0, PyRound(b * DeviceScale, HaScale))

(* async_update: max(1, int(255 * 0.01)); int() truncates 2.55 to 2.       *)
CandleBrightness == Max(1, (HaScale * 1) \div 100)

(***************************************************************************)
(* The three setting targets, and a Device's cached settings               *)
(* (self._lighting_on_off, self._lighting_brightness,                      *)
(* self._led_fluctuation), kept here as one record keyed by target.        *)
(***************************************************************************)
T_OnOff == "lightingOnOff"

T_Brightness == "lightingBrightness"

T_Candle == "ledFluctuationAdjustment"

T_Other == "otherTarget"

Targets == {T_OnOff, T_Brightness, T_Candle}

(* Device.__init__ *)
DeviceInit ==
    [lightingOnOff |-> ON,
     lightingBrightness |-> Str(<<"2", "0">>),
     ledFluctuationAdjustment |-> OFF]

(* StoreChange without its last elif *)
StoreChangeNoCandle(d, target, value) ==
    CASE target = T_OnOff -> [d EXCEPT ![T_OnOff] = value]
      [] target = T_Brightness -> [d EXCEPT ![T_Brightness] = PyStr(value)]
      [] OTHER -> d

(* set_device_misc_settings, one pass of its loop: the if / elif chain on  *)
(* the target.                                                             *)
StoreChange(d, target, value) ==
    CASE target = T_OnOff -> [d EXCEPT ![T_OnOff] = value]
      [] target = T_Brightness -> [d EXCEPT ![T_Brightness] = PyStr(value)]
      [] target = T_Candle -> [d EXCEPT ![T_Candle] = value]
      [] OTHER -> d

(* set_device_misc_settings, the loop over the settings in the order given *)
RECURSIVE ApplyLocal(_, _)
ApplyLocal(d, settings) ==
    IF settings = <<>> THEN d
    ELSE ApplyLocal(StoreChange(d, Head(settings).target, Head(settings).value),
                    Tail(settings))

(* SetReturns, were it to report how the POST went *)
SetReturnsBool(outcome) ==
    IF outcome \in {"status_not_200", "exception"} THEN "False" ELSE "True"

(* set_device_misc_settings returns None on every path: after the early    *)
(* return without aiohttp, after a 200, after a non-200 (logged), and      *)
(* after an exception (caught and logged).                                 *)
SetReturns(outcome) == "None"

(* get_device_misc_settings, one pass of its loop over result[0]           *)
StoreFetched(d, target, value) ==
    CASE target = T_OnOff -> [d EXCEPT ![T_OnOff] = value]
      [] target = T_Brightness -> [d EXCEPT ![T_Brightness] = PyStr(value)]
      [] target = T_Candle -> [d EXCEPT ![T_Candle] = value]
      [] OTHER -> d

(* get_device_misc_settings, the loop over result[0].  An element that is  *)
(* no JSON object has no .get: the AttributeError leaves the loop, with    *)
(* the elements before it already stored.                                  *)
RECURSIVE FetchLoop(_, _)
FetchLoop(d, items) ==
    IF items = <<>> THEN [d |-> d, ok |-> TRUE]
    ELSE IF ~Head(items).dict THEN [d |-> d, ok |-> FALSE]
    ELSE FetchLoop(StoreFetched(d, Head(items).target, Head(items).cur),
                   Tail(items))

(* SimpleNamespace(target=..., currentValue=...) *)
Namespace(target, cur) == [target |-> target, cur |-> cur]

(* get_device_misc_settings, its last statement: the local state as three  *)
(* namespaces, on/off first and the candle mode last.                      *)
LocalState(d) ==
    [shape |-> "list",
     items |-> <<Namespace(T_OnOff, d[T_OnOff]),
                 Namespace(T_Brightness, d[T_Brightness]),
                 Namespace(T_Candle, d[T_Candle])>>]

(* the list comprehension that turns each dict into a SimpleNamespace *)
AsNamespaces(items) ==
    [k \in 1..Len(items) |-> Namespace(items[k].target, items[k].cur)]

(* get_device_misc_settings.  reply is what the HTTP POST came to:         *)
(*   status_not_200   a response with another status                       *)
(*   exception        timeout, connection error, a body that is no JSON    *)
(*   no_result        200, "result" missing or falsy                       *)
(*   result0_list     200, result[0] is a list (reply.items)               *)
(*   result0_text     200, result[0] is a string or an object: not a list, *)
(*                    yet iterable                                         *)
(*   result0_scalar   200, result[0] is a number, a boolean or null        *)
(* The value is the Device's settings after the call and the data          *)
(* returned (the shape of data.result[0], and its items when a list).      *)
DeviceGet(d, reply) ==
    CASE reply.kind = "result0_list" ->
            LET loop == FetchLoop(d, reply.items)
            IN  IF loop.ok
                THEN [d |-> loop.d,
                      data |-> [shape |-> "list", items |-> AsNamespaces(reply.items)]]
                ELSE [d |-> loop.d, data |-> LocalState(loop.d)]
      [] reply.kind = "result0_text" ->
            [d |-> d, data |-> [shape |-> "text", items |-> <<>>]]
      [] reply.kind = "result0_scalar" ->
            [d |-> d, data |-> [shape |-> "scalar", items |-> <<>>]]
      [] OTHER -> [d |-> d, data |-> LocalState(d)]

(***************************************************************************)
(* LspxLight.async_update, the part after the data arrived.                *)
(***************************************************************************)
(* one pass of the loop over result[0] *)
ParseItem(e, item) ==
    CASE item.target = T_OnOff -> [e EXCEPT !.is_on = (item.cur = ON)]
      [] item.target = T_Brightness ->
            IF PyInt(item.cur).ok
            THEN [e EXCEPT !.brightness = ToNormalized(PyInt(item.cur).n)]
            ELSE e
      [] item.target = T_Candle ->
            IF item.cur = ON
            THEN [e EXCEPT !.is_on = TRUE, !.brightness = CandleBrightness]
            ELSE e
      [] OTHER -> e

RECURSIVE ParseItems(_, _)
ParseItems(e, items) ==
    IF items = <<>> THEN e
    ELSE ParseItems(ParseItem(e, Head(items)), Tail(items))

(* e is the entity's [is_on, brightness, available]; the value is the      *)
(* entity after the call and whether an exception left async_update.  The  *)
(* defaults are reset first.  A list is parsed item by item.  A string     *)
(* (or object) is iterated too, but none of its elements has a target.     *)
(* Iterating a number or None raises TypeError, which is no                *)
(* SongpalException: it leaves async_update, after the reset and before    *)
(* _available is set.                                                      *)
UpdateEntity(e, data) ==
    LET reset == [e EXCEPT !.is_on = FALSE, !.brightness = 0]
    IN  CASE data.shape = "list" ->
                [e |-> [ParseItems(reset, data.items) EXCEPT !.available = TRUE],
                 raised |-> FALSE]
          [] data.shape = "text" ->
                [e |-> [reset EXCEPT !.available = TRUE], raised |-> FALSE]
          [] OTHER -> [e |-> reset, raised |-> TRUE]

(***************************************************************************)
(* The settings lists the entity hands to set_device_misc_settings.        *)
(***************************************************************************)
Setting(target, value) == [target |-> target, value |-> value]

(* async_turn_on with a brightness: first call *)
BrightnessSettings(b) ==
    <<Setting(T_Brightness, PyStr(IntV(ToDevice(b))))>>

(* async_turn_on with a brightness: second call *)
CandleOffSettings == <<Setting(T_Candle, OFF)>>

(* async_turn_on without a brightness *)
OnSettings == <<Setting(T_OnOff, ON)>>

(* OffSettings without the candle mode *)
OffSettingsOnOffOnly == <<Setting(T_OnOff, OFF)>>

(* async_turn_off *)
OffSettings == <<Setting(T_Candle, OFF), Setting(T_OnOff, OFF)>>

(***************************************************************************)
(* The speaker at the other end: it holds the settings it has been sent.   *)
(* A setDeviceMiscSettings it answers with 200 has stored each known       *)
(* target's value; one that fails never reached it.                        *)
(***************************************************************************)
RECURSIVE SpeakerStore(_, _)
SpeakerStore(sp, settings) ==
    IF settings = <<>> THEN sp
    ELSE SpeakerStore(
            IF Head(settings).target \in Targets
            THEN [sp EXCEPT ![Head(settings).target] = Head(settings).value]
            ELSE sp,
            Tail(settings))

SpeakerAfter(sp, settings, outcome) ==
    IF outcome = "ok" THEN SpeakerStore(sp, settings) ELSE sp

(***************************************************************************)
(* What a getDeviceMiscSettings request can come to.                       *)
(***************************************************************************)
MaxItems == 2

Item(target, cur) == [dict |-> TRUE, target |-> target, cur |-> cur]

(* an element of result[0] that is no JSON object *)
NotAnObject == [dict |-> FALSE, target |-> "", cur |-> NoneV]

(* Elements a misbehaving or newer speaker may send: values in the domain, *)
(* a brightness that is no number, a currentValue that is missing (None),  *)
(* a target the integration does not know, an element that is no object.   *)
ItemAlphabet ==
    {Item(T_OnOff, OFF), Item(T_OnOff, NoneV),
     Item(T_Brightness, Str(<<"3", "2">>)), Item(T_Brightness, Str(<<"d", "i", "m">>)),
     Item(T_Candle, ON), Item(T_Candle, OFF),
     Item(T_Other, ON), NotAnObject}

(* lists of at most MaxItems elements, no target twice *)
ItemLists ==
    UNION {{l \in [1..n -> ItemAlphabet] :
                \A i, j \in 1..n : i # j => l[i].target # l[j].target} :
           n \in 0..MaxItems}

ListReplies == {[kind |-> "result0_list", items |-> l] : l \in ItemLists}

Orders == {o \in [1..3 -> Targets] : \A i, j \in 1..3 : i # j => o[i] # o[j]}

(* the speaker reports the three settings it holds, in any order *)
EchoReplies(sp) ==
    {[kind |-> "result0_list", items |-> [k \in 1..3 |-> Item(o[k], sp[o[k]])]] :
        o \in Orders}

OtherReplies ==
    {[kind |-> k, items |-> <<>>] :
        k \in {"status_not_200", "exception", "no_result", "result0_text",
               "result0_scalar"}}

(* what a setDeviceMiscSettings request can come to *)
Outcomes == {"ok", "status_not_200", "exception"}

(* the brightness a caller may pass to async_turn_on *)
BrightnessArgs == {IntV(HaScale)}

(***************************************************************************)
(* State.  aiohttp is taken to be importable, as it is wherever Home       *)
(* Assistant runs; without it get_device_misc_settings answers as it does  *)
(* after a failed request and set_device_misc_settings returns after its   *)
(* loop.                                                                   *)
(***************************************************************************)
VARIABLES
    device,       \* the Device's cached settings (FallbackState), by target
    is_on,        \* LspxLight._is_on
    brightness,   \* LspxLight._brightness
    available,    \* LspxLight._available
    speaker,      \* the settings the speaker holds, by target
    pcOn,         \* where a running async_turn_on awaits, or "idle"
    onArg,        \* the brightness given to the running or last async_turn_on
    pcOff,        \* where a running async_turn_off awaits, or "idle"
    sentOn,       \* the settings lists a running async_turn_on has handed over
    sentOff,      \* the settings lists a running async_turn_off has handed over
    lastOp,       \* the handler whose changes were written last
    lastFetch,    \* the async_update that ran in the last step, if one did
    lastSet,      \* the set_device_misc_settings that returned in the last step
    written       \* by target: the value of the last change written, unless a
                  \* fetch has replaced it since

vars ==
    <<device, is_on, brightness, available, speaker, pcOn, onArg, pcOff,
      sentOn, sentOff, lastOp, lastFetch, lastSet, written>>

Fetched == [tag |-> "fetched", s |-> <<>>, n |-> 0]

NoFetch ==
    [kind |-> "none", local |-> FALSE, echo |-> FALSE,
     raised |-> FALSE, sawCandleOn |-> FALSE, badBrightness |-> FALSE,
     wellFormed |-> FALSE, present |-> {}, availableBefore |-> FALSE]

NoSet ==
    [outcome |-> "none", returned |-> "none", raised |-> FALSE, by |-> "none",
     ends |-> FALSE]

(* bookkeeping about a reply *)
IsEcho(reply, sp) ==
    /\ reply.kind = "result0_list"
    /\ Len(reply.items) = 3
    /\ \A k \in 1..3 :
          /\ reply.items[k].dict
          /\ reply.items[k].target \in Targets
          /\ reply.items[k].cur = sp[reply.items[k].target]

HasJunk(reply) == \E k \in 1..Len(reply.items) : ~reply.items[k].dict

ServedLocal(reply) ==
    \/ reply.kind \in {"status_not_200", "exception", "no_result"}
    \/ reply.kind = "result0_list" /\ HasJunk(reply)

InDomain(target, v) ==
    CASE target = T_Brightness ->
            v.tag = "str" /\ PyInt(v).ok /\ PyInt(v).n \in 0..DeviceScale
      [] target \in {T_OnOff, T_Candle} -> v \in {ON, OFF}
      [] OTHER -> FALSE

WellFormed(reply) ==
    /\ reply.kind = "result0_list"
    /\ \A k \in 1..Len(reply.items) :
          reply.items[k].dict /\ InDomain(reply.items[k].target, reply.items[k].cur)

Present(reply) == {reply.items[k].target : k \in 1..Len(reply.items)} \cap Targets

SawCandleOn(data) ==
    /\ data.shape = "list"
    /\ \E k \in 1..Len(data.items) :
          data.items[k].target = T_Candle /\ data.items[k].cur = ON

BadBrightness(reply) ==
    /\ reply.kind = "result0_list"
    /\ ~HasJunk(reply)
    /\ \E k \in 1..Len(reply.items) :
          reply.items[k].target = T_Brightness /\ ~PyInt(reply.items[k].cur).ok

RECURSIVE LastChange(_, _)
LastChange(w, settings) ==
    IF settings = <<>> THEN w
    ELSE LastChange(
            IF Head(settings).target \in Targets
            THEN [w EXCEPT ![Head(settings).target] = Head(settings).value]
            ELSE w,
            Tail(settings))

Entity == [is_on |-> is_on, brightness |-> brightness, available |-> available]

(***************************************************************************)
(* Init: a Device and an LspxLight as constructed; a speaker that is on at *)
(* brightness 20, its candle mode on or off.                               *)
(***************************************************************************)
Init ==
    /\ device = DeviceInit
    /\ is_on = FALSE
    /\ brightness = 0
    /\ available = FALSE
    /\ speaker \in {[DeviceInit EXCEPT ![T_Candle] = c] : c \in {ON, OFF}}
    /\ pcOn = "idle"
    /\ onArg = NoneV
    /\ pcOff = "idle"
    /\ sentOn = <<>>
    /\ sentOff = <<>>
    /\ lastOp = "none"
    /\ lastFetch = NoFetch
    /\ lastSet = NoSet
    /\ written = DeviceInit

(***************************************************************************)
(* async_update.  The coroutine reads and writes nothing before the reply  *)
(* of its one HTTP request is there, and does not suspend after it         *)
(* (get_system_info returns at once): the whole of it is one step, taken   *)
(* when the reply arrives.                                                 *)
(***************************************************************************)
(* GetRaisesSongpal, were the Device to pass the errors of its request on *)
GetRaisesSongpalOnFailure(reply) == reply.kind \in {"status_not_200", "exception"}

(* Whether get_device_misc_settings raises SongpalException: it has no     *)
(* raise statement, and its one try block catches Exception.               *)
GetRaisesSongpal(reply) == FALSE

(* The except SongpalException branch of async_update is its only          *)
(* assignment of False to _available; it is taken before the defaults are  *)
(* reset.                                                                  *)
Update(reply) ==
    \E got \in {DeviceGet(device, reply)} : \E upd \in {UpdateEntity(Entity, got.data)} :
        /\ device' = got.d
        /\ is_on' = IF GetRaisesSongpal(reply) THEN is_on ELSE upd.e.is_on
        /\ brightness' = IF GetRaisesSongpal(reply) THEN brightness ELSE upd.e.brightness
        /\ available' = IF GetRaisesSongpal(reply) THEN FALSE ELSE upd.e.available
        /\ lastFetch' =
              [kind |-> reply.kind,
               local |-> ServedLocal(reply),
               echo |-> IsEcho(reply, speaker),
               raised |-> upd.raised,
               sawCandleOn |-> SawCandleOn(got.data),
               badBrightness |-> BadBrightness(reply),
               wellFormed |-> WellFormed(reply),
               present |-> Present(reply),
               availableBefore |-> available]
        /\ lastSet' = NoSet
        /\ written' = [t \in Targets |-> IF got.d[t] # device[t] THEN Fetched ELSE written[t]]
        /\ UNCHANGED <<speaker, pcOn, onArg, pcOff, sentOn, sentOff, lastOp>>

(***************************************************************************)
(* set_device_misc_settings as seen by its caller once it has returned:    *)
(* it catches every exception of the request itself.                       *)
(***************************************************************************)
SetRaises(outcome) == FALSE

(* by: the handler that made the call; ends: whether the handler ended    *)
(* with it                                                                 *)
SetDone(outcome, by, ends) ==
    [outcome |-> outcome, returned |-> SetReturns(outcome),
     raised |-> SetRaises(outcome), by |-> by, ends |-> ends]

(***************************************************************************)
(* async_turn_on.  set_device_misc_settings stores the changes before it   *)
(* first awaits, so a call runs up to the await of its POST in one step;   *)
(* the step that ends the POST runs on to the next await or to the end.    *)
(***************************************************************************)
FirstSettings(arg) == IF arg = NoneV THEN OnSettings ELSE BrightnessSettings(arg.n)

TurnOnCall(arg) ==
    /\ pcOn = "idle"
    /\ onArg' = arg
    /\ device' = ApplyLocal(device, FirstSettings(arg))
    /\ written' = LastChange(written, FirstSettings(arg))
    /\ sentOn' = <<FirstSettings(arg)>>
    /\ pcOn' = IF arg = NoneV THEN "post_on" ELSE "post_brightness"
    /\ lastOp' = IF arg = NoneV THEN "turn_on" ELSE "turn_on_brightness"
    /\ lastFetch' = NoFetch
    /\ lastSet' = NoSet
    /\ UNCHANGED <<is_on, brightness, available, speaker, pcOff, sentOff>>

(* the POST of the brightness ends; the candle mode is switched off next *)
TurnOnBrightnessPosted(outcome) ==
    /\ pcOn = "post_brightness"
    /\ speaker' = SpeakerAfter(speaker, sentOn[1], outcome)
    /\ device' = ApplyLocal(device, CandleOffSettings)
    /\ written' = LastChange(written, CandleOffSettings)
    /\ sentOn' = Append(sentOn, CandleOffSettings)
    /\ pcOn' = "post_candle"
    /\ lastOp' = "turn_on_brightness"
    /\ lastFetch' = NoFetch
    /\ lastSet' = SetDone(outcome, "turn_on", FALSE)
    /\ UNCHANGED <<is_on, brightness, available, onArg, pcOff, sentOff>>

(* the POST of the candle mode ends; the optimistic state is set *)
TurnOnCandlePosted(outcome) ==
    /\ pcOn = "post_candle"
    /\ speaker' = SpeakerAfter(speaker, sentOn[2], outcome)
    /\ is_on' = TRUE
    /\ brightness' = onArg.n
    /\ pcOn' = "idle"
    /\ sentOn' = <<>>
    /\ lastFetch' = NoFetch
    /\ lastSet' = SetDone(outcome, "turn_on", TRUE)
    /\ UNCHANGED <<device, available, onArg, pcOff, sentOff, lastOp, written>>

(* the POST of lightingOnOff = on ends; the optimistic state is set *)
TurnOnPosted(outcome) ==
    /\ pcOn = "post_on"
    /\ speaker' = SpeakerAfter(speaker, sentOn[1], outcome)
    /\ is_on' = TRUE
    /\ pcOn' = "idle"
    /\ sentOn' = <<>>
    /\ lastFetch' = NoFetch
    /\ lastSet' = SetDone(outcome, "turn_on", TRUE)
    /\ UNCHANGED <<device, brightness, available, onArg, pcOff, sentOff, lastOp, written>>

(***************************************************************************)
(* async_turn_off                                                          *)
(***************************************************************************)
TurnOffCall ==
    /\ pcOff = "idle"
    /\ device' = ApplyLocal(device, OffSettings)
    /\ written' = LastChange(written, OffSettings)
    /\ sentOff' = <<OffSettings>>
    /\ pcOff' = "post"
    /\ lastOp' = "turn_off"
    /\ lastFetch' = NoFetch
    /\ lastSet' = NoSet
    /\ UNCHANGED <<is_on, brightness, available, speaker, pcOn, onArg, sentOn>>

TurnOffPosted(outcome) ==
    /\ pcOff = "post"
    /\ speaker' = SpeakerAfter(speaker, sentOff[1], outcome)
    /\ is_on' = FALSE
    /\ pcOff' = "idle"
    /\ sentOff' = <<>>
    /\ lastFetch' = NoFetch
    /\ lastSet' = SetDone(outcome, "turn_off", TRUE)
    /\ UNCHANGED <<device, brightness, available, pcOn, onArg, sentOn, lastOp, written>>

(***************************************************************************)
(* Spec: the handlers as Home Assistant's event loop may interleave them,  *)
(* one async_turn_on and one async_turn_off at a time, against a speaker   *)
(* that reports what it holds or fails to answer.                          *)
(***************************************************************************)
UpdateEcho == \E reply \in EchoReplies(speaker) : Update(reply)

UpdateOther == \E reply \in OtherReplies : Update(reply)

UpdateList == \E reply \in ListReplies : Update(reply)

AsyncTurnOn == \E arg \in BrightnessArgs \cup {NoneV} : TurnOnCall(arg)

BrightnessPosted == \E outcome \in Outcomes : TurnOnBrightnessPosted(outcome)

CandlePosted == \E outcome \in Outcomes : TurnOnCandlePosted(outcome)

OnPosted == \E outcome \in Outcomes : TurnOnPosted(outcome)

AsyncTurnOff == TurnOffCall

OffPosted == \E outcome \in Outcomes : TurnOffPosted(outcome)

Next ==
    \/ UpdateEcho
    \/ UpdateOther
    \/ AsyncTurnOn
    \/ BrightnessPosted
    \/ CandlePosted
    \/ OnPosted
    \/ AsyncTurnOff
    \/ OffPosted

Spec == Init /\ [][Next]_vars

(***************************************************************************)
(* SerialSpec: the handlers one at a time (no call starts while another    *)
(* awaits), against a speaker that may also answer with any list of        *)
(* ItemLists.                                                              *)
(***************************************************************************)
Quiet == pcOn = "idle" /\ pcOff = "idle"

SerialUpdateEcho == Quiet /\ UpdateEcho

SerialUpdateOther == Quiet /\ UpdateOther

SerialUpdateList == Quiet /\ UpdateList

SerialTurnOn == Quiet /\ AsyncTurnOn

SerialTurnOff == Quiet /\ AsyncTurnOff

SerialNext ==
    \/ SerialUpdateList
    \/ SerialUpdateEcho
    \/ SerialUpdateOther
    \/ SerialTurnOn
    \/ BrightnessPosted
    \/ CandlePosted
    \/ OnPosted
    \/ SerialTurnOff
    \/ OffPosted

SerialSpec == Init /\ [][SerialNext]_vars

(***************************************************************************)
(* RoundTripSpec: a speaker at any brightness d of the device scale, candle *)
(* mode off; the entity fetches it and the brightness it then reports is   *)
(* sent back through async_turn_on, every request succeeding.              *)
(***************************************************************************)
RoundTripInit ==
    /\ device = DeviceInit
    /\ is_on = FALSE
    /\ brightness = 0
    /\ available = FALSE
    /\ speaker \in {[DeviceInit EXCEPT ![T_Brightness] = PyStr(IntV(d))] : d \in 0..DeviceScale}
    /\ pcOn = "idle"
    /\ onArg = NoneV
    /\ pcOff = "idle"
    /\ sentOn = <<>>
    /\ sentOff = <<>>
    /\ lastOp = "none"
    /\ lastFetch = NoFetch
    /\ lastSet = NoSet
    /\ written = DeviceInit

RoundTripFetch == Quiet /\ UpdateEcho

RoundTripTurnOn == Quiet /\ TurnOnCall(IntV(brightness))

RoundTripBrightnessPosted == TurnOnBrightnessPosted("ok")

RoundTripCandlePosted == TurnOnCandlePosted("ok")

RoundTripNext ==
    \/ RoundTripFetch
    \/ RoundTripTurnOn
    \/ RoundTripBrightnessPosted
    \/ RoundTripCandlePosted

RoundTripSpec == RoundTripInit /\ [][RoundTripNext]_vars

(***************************************************************************)
(* The properties.                                                         *)
(***************************************************************************)
S32 == Str(<<"3", "2">>)

(* the snapshot the specification derives from a FallbackState d:          *)
(* isOn = (lightingOnOff = "on") or (ledFluctuationAdjustment = "on");     *)
(* brightness 2 in candle mode, else (lightingBrightness * 255) div 32     *)
(* (0 when lightingBrightness is no integer).                              *)
SnapshotOf(d) ==
    [is_on |-> d[T_OnOff] = ON \/ d[T_Candle] = ON,
     brightness |->
        IF d[T_Candle] = ON THEN 2
        ELSE IF PyInt(d[T_Brightness]).ok
             THEN (PyInt(d[T_Brightness]).n * 255) \div 32
             ELSE 0]

(* C1: whenever a fetch sees ledFluctuationAdjustment = "on", whatever the *)
(* other two settings are and wherever the item stands in the response,    *)
(* the entity is on at brightness 2.                                       *)
C1_CandleOnWins == lastFetch.sawCandleOn => (is_on /\ brightness = 2)

(* C2: async_turn_on with brightness 255 hands over lightingBrightness =   *)
(* "32" and then ledFluctuationAdjustment = "off"; and the next fetch, from *)
(* a speaker that holds these settings and reports what it holds, gives    *)
(* brightness 255 and is_on = true.                                        *)
C2_TurnOnFull ==
    [][/\ (pcOn' = "post_brightness" /\ onArg' = IntV(255)) =>
             sentOn' = << <<Setting(T_Brightness, S32)>> >>
       /\ (pcOn' = "post_candle" /\ onArg' = IntV(255)) =>
             sentOn' = << <<Setting(T_Brightness, S32)>>, <<Setting(T_Candle, OFF)>> >>
       /\ (/\ lastOp = "turn_on_brightness" /\ onArg = IntV(255) /\ pcOn = "idle"
           /\ speaker[T_Brightness] = S32 /\ speaker[T_Candle] = OFF
           /\ lastFetch'.echo) =>
             (brightness' = 255 /\ is_on')]_vars

C4_FailedFetch ==
    [][(lastFetch'.local \/ lastFetch'.kind \in {"result0_text", "result0_scalar"}) =>
          /\ device' = device
          /\ ~lastFetch'.raised
          /\ is_on' = SnapshotOf(device).is_on
          /\ brightness' = SnapshotOf(device).brightness]_vars

(* C5: after a fetch answered 200 with a list of settings of known targets *)
(* with values in their domains, the targets the list does not name keep   *)
(* their FallbackState value, and the entity holds the snapshot of the     *)
(* FallbackState as it is after the fetch.                                 *)
C5_FetchedSnapshot ==
    [][lastFetch'.wellFormed =>
          /\ \A t \in Targets \ lastFetch'.present : device'[t] = device[t]
          /\ is_on' = SnapshotOf(device').is_on
          /\ brightness' = SnapshotOf(device').brightness]_vars

(* C6, as claimed: set_device_misc_settings returns false, and raises      *)
(* nothing, when its POST fails, and something else when it succeeds.      *)
C6_ReportsFailure ==
    /\ lastSet.outcome \in {"status_not_200", "exception"} =>
          (lastSet.returned = "False" /\ ~lastSet.raised)
    /\ lastSet.outcome = "ok" => (lastSet.returned # "False" /\ ~lastSet.raised)

(* C6, amended: set_device_misc_settings raises nothing and returns None   *)
(* whatever its POST came to, and the handler that called it sets its      *)
(* optimistic state all the same.                                          *)
C6_ReturnsNone ==
    lastSet.outcome # "none" =>
        /\ lastSet.returned = "None"
        /\ ~lastSet.raised
        /\ (lastSet.ends /\ lastSet.by = "turn_on") => is_on
        /\ (lastSet.ends /\ lastSet.by = "turn_off") => ~is_on

C6_Witness ==
    /\ lastSet.outcome = "exception" /\ lastSet.by = "turn_off" /\ lastSet.ends
    /\ lastSet.returned = "None"
    /\ speaker[T_OnOff] = ON /\ ~is_on

(* C7: the FallbackState always holds, for each target, a value that is    *)
(* not None and lies in the target's domain: "on" / "off", or a string of  *)
(* an integer.                                                             *)
C7_FallbackInDomain ==
    /\ device[T_OnOff] \in {ON, OFF}
    /\ device[T_Candle] \in {ON, OFF}
    /\ device[T_Brightness].tag = "str" /\ PyInt(device[T_Brightness]).ok

(* C8: a fetch that receives a lightingBrightness that is no integer       *)
(* raises nothing and leaves the cached brightness alone, in the           *)
(* FallbackState and in the entity.                                        *)
C8_BadBrightness ==
    [][lastFetch'.badBrightness =>
          /\ ~lastFetch'.raised
          /\ device'[T_Brightness] = device[T_Brightness]
          /\ brightness' = brightness]_vars

(* C9: a fetch of device brightness d in 0..32 gives (d * 255) div 32, a   *)
(* value in 0..255; async_turn_on with that value sends a device           *)
(* brightness within 1 of d and in 0..32.                                  *)
C9_RoundTrip ==
    [][/\ lastFetch'.echo =>
             /\ brightness' = (PyInt(speaker[T_Brightness]).n * 255) \div 32
             /\ brightness' \in 0..255
       /\ (lastFetch.echo /\ pcOn' = "post_brightness") =>
             /\ PyInt(sentOn'[1][1].value).ok
             /\ PyInt(sentOn'[1][1].value).n \in 0..32
             /\ PyInt(sentOn'[1][1].value).n - PyInt(speaker[T_Brightness]).n \in -1..1]_vars

C9_Witness ==
    /\ pcOn = "post_brightness"
    /\ speaker[T_Brightness] = Str(<<"7">>)
    /\ onArg = IntV(55)
    /\ sentOn = << <<Setting(T_Brightness, Str(<<"7">>))>> >>

(* C10: however the calls of set_device_misc_settings interleave and       *)
(* whatever their POSTs come to, each target of the FallbackState holds    *)
(* the value of the last change written for it (the value it was           *)
(* constructed with when there was none), until a fetch replaces it.       *)
C10_LastWriterWins ==
    \A t \in Targets : written[t] # Fetched => device[t] = written[t]

C10_Witness ==
    /\ pcOn = "post_candle" /\ pcOff = "post"
    /\ lastOp = "turn_on_brightness"
    /\ lastSet.outcome = "exception"
    /\ device = [lightingOnOff |-> OFF, lightingBrightness |-> S32,
                 ledFluctuationAdjustment |-> OFF]
    /\ written = device

(* C11: the availability flag never goes from true to false: once an       *)
(* async_update has set it, every later async_update, async_turn_on and    *)
(* async_turn_off leaves it true, also when every HTTP request fails or    *)
(* an exception leaves async_update.                                       *)
C11_StaysAvailable == [][available => available']_vars

(* an async_update whose request failed, with the entity available before *)
(* it and after it, after an async_turn_off that did not reach the speaker *)
C11_Witness ==
    /\ available
    /\ lastFetch.availableBefore
    /\ lastFetch.kind = "exception"
    /\ lastOp = "turn_off" /\ pcOff = "idle" /\ pcOn = "idle"
    /\ device[T_OnOff] = OFF
    /\ speaker[T_OnOff] = ON

=============================================================================
